---- MODULE Spec2Model ----
(***************************************************************************)
(* A model of the Manus Streamlit dashboards: the chat page                *)
(* (src/scripts/app.py), the task manager (src/task_manager.py) and the    *)
(* file manager (src/scripts/file_manager.py).  Each page is a Streamlit   *)
(* script of its own with its own session state; a session runs one of     *)
(* them, chosen in Init.  Every user interaction re-runs the script from   *)
(* the top, so what a page displays is what the last run rendered.         *)
(***************************************************************************)
EXTENDS Integers, Sequences, FiniteSets, TLC

(***************************************************************************)
(* Bounds of the model.                                                    *)
(***************************************************************************)
\* create_task calls (successful or not) made in one session
MaxCreates == 2
\* entries the conversation history may hold
MaxHistory == 2
\* file ids the remote registration hands out in one session
MaxFileIds == 2
\* files selected in one batch of Process All Uploads
MaxBatch == 2
\* files selected in one batch of Upload All Files
MaxFmBatch == 3
\* create_task calls of a session that only chats (no uploads, one profile)
MaxChainCreates == 3
\* value at which the model stops counting poll iterations
MaxPollCount == 1
\* tasks the remote service holds for the task manager
MaxRemoteTasks == 3
\* records the file manager's upload history may hold
MaxUploadHistory == 3

(***************************************************************************)
(* Values.                                                                 *)
(***************************************************************************)
\* Python's None, for ids and for objects
None == 0

\* the statuses a status retrieval can report
Statuses == {"running", "pending", "pending_input", "completed", "error"}

\* what metadata.get('credit_usage') can find: no entry, a value that is not
\* a number, or a number
CreditUsages ==
    {[kind |-> "absent", n |-> 0], [kind |-> "nan", n |-> 0]}
        \cup {[kind |-> "num", n |-> n] : n \in {-1, 5}}

\* the texts typed into the chat input
Inputs == {"q"}

\* the local files a user can select, sizes in MB
LocalFiles == {[name |-> "a.txt", size |-> 1], [name |-> "b.pdf", size |-> 101]}

\* what happens to one file of a batch at the remote: both calls succeed,
\* the registration (POST /files) raises, or the PUT raises
UploadOutcomes == {"ok", "reg_fail", "put_fail"}

\* ManusConfig.max_file_size_mb
max_file_size_mb == 100

Pages == {"app", "tasks", "files"}

VARIABLES
    page,                 \* the script this session runs
    \* ---- st.session_state of app.py
    messages,             \* the active conversation
    current_task_id,
    uploaded_files,       \* the staging list
    conversation_history,
    total_credits_used,
    task_count,
    messages_alias,       \* index of the history entry whose 'messages' list
                          \* is the very list object of the active
                          \* conversation (0: none)
    \* ---- position and locals of the send flow of app.py
    pc,                   \* "idle" | "poll" | "sleep" | "polled"
    response,             \* id of the task create_task returned
    task_update,          \* status of the last retrieval ("none": none yet)
    poll_count,
    completed_task,       \* what poll_task_status returned
    \* ---- what the page shows
    errors,               \* error messages visible outside the placeholder
    placeholder,          \* the status text inside the poll placeholder
    \* ---- the remote service
    next_task_id,
    next_file_id,
    remote_files,         \* ids of the files registered at the remote
    remote_tasks,         \* the tasks the remote lists, as a sequence
    \* ---- st.session_state of task_manager.py
    tasks,                \* the cached task list
    has_tasks,            \* 'tasks' in st.session_state
    details,              \* ids t with a details_<t> entry
    \* ---- st.session_state and display of file_manager.py
    upload_history,
    upload_results,       \* the records of the last Upload All Files
    files_shown,          \* the file list rendered by the last run
    \* ---- history variables
    create_log,           \* every create_task call: arguments and result
    credit_log,           \* every addition to total_credits_used
    upload_batch,         \* the files of the last upload batch
    upload_log,           \* the remote calls of the last upload batch
    batch_ids,            \* per file of the last batch, the id registered
    at_send,              \* session state when the last send started
    at_poll,              \* session state when its polling began
    outcome,              \* how the last operation ended
    conv_tasks,           \* ids of the tasks created in the active conversation
    history_tasks,        \* per history entry, the ids of the tasks created
                          \* in the conversation it holds
    replaced_len,         \* length of the list the last operation replaced
                          \* (staging list, cached task list; 0: none)
    \* ---- the remote service, as the send flow meets it
    remote_status,        \* status of the task being polled ("none": no poll)
    remote_call,          \* the last request sent to the responses or tasks
                          \* endpoint by the operation being looked at
    \* ---- a function of the modules called on its own
    fn_call,              \* the function and its arguments
    fn_ret                \* what the last call returned

appvars == <<messages, current_task_id, uploaded_files, conversation_history,
             total_credits_used, task_count, messages_alias>>
sendvars == <<pc, response, task_update, poll_count, completed_task>>
shownvars == <<errors, placeholder>>
remotevars == <<next_task_id, next_file_id, remote_files, remote_tasks>>
tmvars == <<tasks, has_tasks, details>>
fmvars == <<upload_history, upload_results, files_shown>>
chainvars == <<conv_tasks, history_tasks>>
ghostvars == <<create_log, credit_log, upload_batch, upload_log, batch_ids, at_send, at_poll, outcome, chainvars, replaced_len>>

requestvars == <<remote_status, remote_call>>
fnvars == <<fn_call, fn_ret>>

vars == <<page, appvars, sendvars, shownvars, remotevars, tmvars, fmvars, ghostvars,
          requestvars, fnvars>>

(***************************************************************************)
(* Helpers.                                                                *)
(***************************************************************************)
Range(s) == {s[i] : i \in DOMAIN s}

Last(s) == s[Len(s)]

\* the sequences over S of length 1..n
SeqUpTo(S, n) == UNION {[1..k -> S] : k \in 1..n}

\* the session state of app.py as one record
Session == [messages |-> messages,
            current_task_id |-> current_task_id,
            uploaded_files |-> uploaded_files,
            conversation_history |-> conversation_history,
            total_credits_used |-> total_credits_used,
            task_count |-> task_count]

\* the value of completed_task when poll_task_status returned None
NoTask == [id |-> None, status |-> "none", credit_usage |-> [kind |-> "absent", n |-> 0]]

\* the value of remote_call while no request is being looked at
NoRequest == [op |-> "none"]

\* the value of fn_call in a session of a page, and of fn_ret before a call
NoCall == [fn |-> "none"]

\* the values of the history variables while no operation is being looked at
NoSession == [messages |-> <<>>, current_task_id |-> None, uploaded_files |-> <<>>,
              conversation_history |-> <<>>, total_credits_used |-> 0, task_count |-> 0]

(***************************************************************************)
(* app.py: upload_file_to_manus and Process All Uploads.                   *)
(***************************************************************************)
\* upload_file_to_manus without raise_for_status: the id is returned also
\* when the PUT failed
UploadFileToManusNoRaise(f, nid) ==
    [file_id |-> IF f.outcome = "reg_fail" THEN None ELSE nid,
     registered |-> IF f.outcome = "reg_fail" THEN None ELSE nid,
     calls |-> IF f.outcome = "reg_fail"
               THEN <<[op |-> "register", name |-> f.name, id |-> None]>>
               ELSE <<[op |-> "register", name |-> f.name, id |-> nid],
                      [op |-> "put", name |-> f.name, id |-> nid]>>,
     error |-> f.outcome = "reg_fail"]

\* upload_file_to_manus sending the bytes before it registers the file
UploadFileToManusPutFirst(f, nid) ==
    [file_id |-> IF f.outcome = "ok" THEN nid ELSE None,
     registered |-> IF f.outcome = "reg_fail" THEN None ELSE nid,
     calls |-> IF f.outcome = "reg_fail"
               THEN <<[op |-> "register", name |-> f.name, id |-> None]>>
               ELSE <<[op |-> "put", name |-> f.name, id |-> nid],
                      [op |-> "register", name |-> f.name, id |-> nid]>>,
     error |-> f.outcome # "ok"]

\* upload_file_to_manus trying a failed call a second time
UploadFileToManusRetry(f, nid) ==
    [file_id |-> IF f.outcome = "ok" THEN nid ELSE None,
     registered |-> IF f.outcome = "reg_fail" THEN None ELSE nid,
     calls |-> IF f.outcome = "reg_fail"
               THEN <<[op |-> "register", name |-> f.name, id |-> None],
                      [op |-> "register", name |-> f.name, id |-> None]>>
               ELSE IF f.outcome = "put_fail"
               THEN <<[op |-> "register", name |-> f.name, id |-> nid],
                      [op |-> "put", name |-> f.name, id |-> nid],
                      [op |-> "put", name |-> f.name, id |-> nid]>>
               ELSE <<[op |-> "register", name |-> f.name, id |-> nid],
                      [op |-> "put", name |-> f.name, id |-> nid]>>,
     error |-> f.outcome # "ok"]

\* upload_file_to_manus(client, file_data, filename): POST /files, then PUT
\* to the upload url of the record; any exception is shown with st.error and
\* None is returned.  nid is the id the remote assigns to the registration.
UploadFileToManus(f, nid) ==
    [file_id |-> IF f.outcome = "ok" THEN nid ELSE None,
     registered |-> IF f.outcome = "reg_fail" THEN None ELSE nid,
     calls |-> IF f.outcome = "reg_fail"
               THEN <<[op |-> "register", name |-> f.name, id |-> None]>>
               ELSE <<[op |-> "register", name |-> f.name, id |-> nid],
                      [op |-> "put", name |-> f.name, id |-> nid]>>,
     error |-> f.outcome # "ok"]

\* the state of an upload loop before its first file
UploadStart(nid) ==
    [staged |-> <<>>, results |-> <<>>, log |-> <<>>, ids |-> <<>>,
     next |-> nid, errors |-> {}, registered |-> {}]

\* one iteration of the loop `for idx, file in enumerate(uploaded_files)` of
\* either page: the staging entry of app.py and the result record of
\* file_manager.py
UploadStep(acc, f) ==
    LET r == UploadFileToManus(f, acc.next)
    IN  [staged |-> IF r.file_id # None
                    THEN Append(acc.staged, [id |-> r.file_id, name |-> f.name])
                    ELSE acc.staged,
         results |-> Append(acc.results,
                            [filename |-> f.name, file_id |-> r.file_id,
                             size |-> f.size,
                             status |-> IF r.file_id # None THEN "success" ELSE "failed"]),
         log |-> acc.log \o r.calls,
         ids |-> Append(acc.ids, r.registered),
         next |-> IF r.registered # None THEN acc.next + 1 ELSE acc.next,
         errors |-> IF r.error
                    THEN acc.errors \cup {[src |-> "upload", arg |-> f.name]}
                    ELSE acc.errors,
         registered |-> IF r.registered # None
                        THEN acc.registered \cup {r.registered}
                        ELSE acc.registered]

RECURSIVE UploadLoop(_, _, _)
\* the whole loop over the batch, file k first
UploadLoop(batch, k, acc) ==
    IF k > Len(batch) THEN acc
    ELSE UploadLoop(batch, k + 1, UploadStep(acc, batch[k]))

\* the files a user can select for a batch, each with what the remote will
\* do to it
BatchFiles ==
    {[name |-> f.name, size |-> f.size, outcome |-> o] :
        f \in LocalFiles, o \in UploadOutcomes}

Batches == SeqUpTo(BatchFiles, MaxBatch)

FmBatches == SeqUpTo(BatchFiles, MaxFmBatch)

\* the number of registrations of a batch that succeed
Registrations(batch) == Cardinality({i \in DOMAIN batch : batch[i].outcome # "reg_fail"})

\* the history variables of an upload, cleared by every other operation
NoUpload ==
    /\ upload_batch' = <<>>
    /\ upload_log' = <<>>
    /\ batch_ids' = <<>>

\* the history variables of a send, cleared by every other operation
NoSend ==
    /\ at_send' = NoSession
    /\ at_poll' = NoSession
    /\ response' = None
    /\ task_update' = "none"
    /\ poll_count' = 0
    /\ completed_task' = NoTask
    /\ remote_status' = "none"

\* the files of the batch staged behind the files staged before
StagedAfterBatchExtending(before, added) == before \o added

\* the staging list after Process All Uploads: st.session_state.uploaded_files
\* is set to [] before the loop appends the files of the batch
StagedAfterBatch(before, added) == added

\* the sidebar button Process All Uploads
ProcessAllUploads(batch) ==
    /\ page = "app"
    /\ pc = "idle"
    /\ next_file_id + Registrations(batch) <= MaxFileIds + 1
    /\ LET r == UploadLoop(batch, 1, UploadStart(next_file_id))
       IN  /\ uploaded_files' = StagedAfterBatch(uploaded_files, r.staged)
           /\ next_file_id' = r.next
           /\ remote_files' = remote_files \cup r.registered
           /\ errors' = r.errors
           /\ upload_batch' = batch
           /\ upload_log' = r.log
           /\ batch_ids' = r.ids
    /\ replaced_len' = Len(uploaded_files)
    /\ outcome' = "uploaded"
    /\ NoSend
    /\ remote_call' = NoRequest
    /\ UNCHANGED <<page, fnvars, messages, current_task_id, conversation_history,
                   total_credits_used, task_count, messages_alias, pc,
                   placeholder, next_task_id, remote_tasks, tmvars, fmvars,
                   create_log, credit_log, chainvars>>

\* the sidebar button Clear Files, shown while files are staged
ClearFiles ==
    /\ page = "app"
    /\ pc = "idle"
    /\ uploaded_files # <<>>
    /\ uploaded_files' = <<>>
    /\ errors' = {}
    /\ outcome' = "cleared"
    /\ replaced_len' = 0
    /\ NoSend /\ NoUpload
    /\ remote_call' = NoRequest
    /\ UNCHANGED <<page, fnvars, messages, current_task_id, conversation_history,
                   total_credits_used, task_count, messages_alias, pc,
                   placeholder, remotevars, tmvars, fmvars, create_log, credit_log, chainvars>>

(***************************************************************************)
(* app.py: conversation management.                                        *)
(***************************************************************************)
\* the message put in front of the conversation instead of behind it
AppendMessagePrepending(msgs, hist, alias, m) ==
    [messages |-> <<m>> \o msgs,
     conversation_history |->
         IF alias # None
         THEN [hist EXCEPT ![alias].messages = <<m>> \o msgs]
         ELSE hist]

\* list.append on the active conversation: when that list object is also the
\* 'messages' list of a history entry (after Load), the entry sees the append
AppendMessage(msgs, hist, alias, m) ==
    [messages |-> Append(msgs, m),
     conversation_history |->
         IF alias # None
         THEN [hist EXCEPT ![alias].messages = Append(msgs, m)]
         ELSE hist]

\* save_conversation_to_history() storing an empty conversation as well
SaveConversationToHistoryAlways(hist, msgs, tc, credits) ==
    Append(hist, [messages |-> msgs, task_count |-> tc, credits_used |-> credits])

\* save_conversation_to_history() overwriting the history with the new entry
SaveConversationToHistoryReplace(hist, msgs, tc, credits) ==
    IF msgs # <<>>
    THEN <<[messages |-> msgs, task_count |-> tc, credits_used |-> credits]>>
    ELSE hist

\* save_conversation_to_history(): a copy of the active conversation and the
\* two session counters, appended when the conversation is not empty
SaveConversationToHistory(hist, msgs, tc, credits) ==
    IF msgs # <<>>
    THEN Append(hist, [messages |-> msgs, task_count |-> tc, credits_used |-> credits])
    ELSE hist

\* the sidebar button New Chat
NewChat ==
    /\ page = "app"
    /\ pc = "idle"
    /\ messages = <<>> \/ Len(conversation_history) < MaxHistory
    /\ conversation_history' =
           SaveConversationToHistory(conversation_history, messages,
                                     task_count, total_credits_used)
    /\ messages' = <<>>
    /\ messages_alias' = None
    /\ current_task_id' = None
    /\ uploaded_files' = <<>>
    /\ errors' = {}
    /\ outcome' = "new_chat"
    /\ NoSend /\ NoUpload
    /\ remote_call' = NoRequest
    /\ conv_tasks' = {}
    /\ history_tasks' = IF messages # <<>>
                        THEN Append(history_tasks, conv_tasks)
                        ELSE history_tasks
    /\ replaced_len' = 0
    /\ UNCHANGED <<page, fnvars, total_credits_used, task_count, pc, placeholder,
                   remotevars, tmvars, fmvars, create_log, credit_log>>

\* the button Load of history entry i: the active conversation becomes the
\* entry's own list, not a copy of it
Load(i) ==
    /\ page = "app"
    /\ pc = "idle"
    /\ i \in 1..Len(conversation_history)
    /\ messages = <<>> \/ Len(conversation_history) < MaxHistory
    /\ conversation_history' =
           SaveConversationToHistory(conversation_history, messages,
                                     task_count, total_credits_used)
    /\ messages' = conversation_history[i].messages
    /\ messages_alias' = i
    /\ errors' = {}
    /\ outcome' = "loaded"
    /\ NoSend /\ NoUpload
    /\ remote_call' = NoRequest
    /\ conv_tasks' = history_tasks[i]
    /\ history_tasks' = IF messages # <<>>
                        THEN Append(history_tasks, conv_tasks)
                        ELSE history_tasks
    /\ replaced_len' = 0
    /\ UNCHANGED <<page, fnvars, current_task_id, uploaded_files, total_credits_used,
                   task_count, pc, placeholder, remotevars, tmvars,
                   fmvars, create_log, credit_log>>

(***************************************************************************)
(* app.py: the send flow (chat input, create_task, poll_task_status).      *)
(***************************************************************************)
\* `if response:` taken also when create_task returned None
ResponseOkAlways(r) == TRUE

\* `if response:` after create_task
ResponseOk(r) == r # None

\* the statuses on which poll_task_status returns, with `error` left out
ReturnsSnapshotNoError(status) == status \in {"completed", "pending"}

\* the statuses on which poll_task_status returns the snapshot
ReturnsSnapshot(status) == status \in {"completed", "error", "pending"}

\* `if completed_task:` taken also for None
SnapshotReturnedAlways(t) == TRUE

\* `if completed_task:` after poll_task_status
SnapshotReturned(t) == t # NoTask

\* the credits added twice
CreditsAfterTwice(total, credits_used) == total + credits_used + credits_used

\* the credits subtracted instead of added
CreditsAfterMinus(total, credits_used) == total - credits_used

\* st.session_state.total_credits_used += credits_used
CreditsAfter(total, credits_used) == total + credits_used

\* the task counter raised by two
TaskCountAfterDouble(count) == count + 2

\* st.session_state.task_count += 1
TaskCountAfter(count) == count + 1

\* the progress value of the else branch
Progress(n) == IF 50 + n * 2 < 95 THEN 50 + n * 2 ELSE 95

\* the options of the selectbox Profile
AgentProfiles == {"quality", "speed"}

\* values of the slider Timeout (seconds): min 60, max 600, step 30
TimeoutValues == {60, 300, 600}

\* create_task with the image item put before the file items
CreateTaskContentImageEarly(user_input, uploaded_file_ids, image_url) ==
    <<[type |-> "input_text", text |-> user_input]>>
    \o (IF image_url # ""
        THEN <<[type |-> "input_image", image_url |-> image_url]>>
        ELSE <<>>)
    \o [k \in DOMAIN uploaded_file_ids |->
           [type |-> "input_file", file_id |-> uploaded_file_ids[k]]]

\* the content list create_task builds.  The empty sequence stands for both
\* None and [] of uploaded_file_ids, "" for both None and '' of image_url:
\* `if uploaded_file_ids:` and `if image_url:` treat them alike.
CreateTaskContent(user_input, uploaded_file_ids, image_url) ==
    <<[type |-> "input_text", text |-> user_input]>>
    \o [k \in DOMAIN uploaded_file_ids |->
           [type |-> "input_file", file_id |-> uploaded_file_ids[k]]]
    \o (IF image_url # ""
        THEN <<[type |-> "input_image", image_url |-> image_url]>>
        ELSE <<>>)

\* the extra_body of create_task
ExtraBody(agent_profile, previous_task_id, timeout_seconds) ==
    IF previous_task_id # None
    THEN [task_mode |-> "agent", agent_profile |-> agent_profile,
          timeout_seconds |-> timeout_seconds, task_id |-> previous_task_id]
    ELSE [task_mode |-> "agent", agent_profile |-> agent_profile,
          timeout_seconds |-> timeout_seconds]

\* the request create_task hands to client.responses.create
CreateTaskRequest(user_input, uploaded_file_ids, image_url, agent_profile, previous_task_id, timeout_seconds) ==
    [op |-> "create",
     input |-> <<[role |-> "user",
                  content |-> CreateTaskContent(user_input, uploaded_file_ids,
                                                image_url)]>>,
     extra_body |-> ExtraBody(agent_profile, previous_task_id, timeout_seconds)]

\* the ids of the staged files, last file first
StagedFileIdsReversed(staged) ==
    [k \in DOMAIN staged |-> staged[Len(staged) + 1 - k].id]

\* file_ids = [f['id'] for f in st.session_state.uploaded_files]
StagedFileIds(staged) == [k \in DOMAIN staged |-> staged[k].id]

\* user_message["files"] = [f['name'] for f in st.session_state.uploaded_files];
\* the empty sequence stands for a message without the key
StagedFileNames(staged) == [k \in DOMAIN staged |-> staged[k].name]

\* the chat input delivers a text: the user message is stored, the task is
\* created and, when that worked, polling begins.  agent_profile and
\* timeout_seconds are what the sidebar widgets hold; ok: the remote create
\* call returns (otherwise it raises and create_task returns None).
\* bound: the number of create_task calls the model follows.
SendMessageWithin(bound, input, agent_profile, timeout_seconds, ok) ==
    /\ page = "app"
    /\ pc = "idle"
    /\ Len(create_log) < bound
    /\ LET user_message == [role |-> "user", content |-> input,
                            files |-> StagedFileNames(uploaded_files),
                            task |-> None, credits |-> 0]
           stored == AppendMessage(messages, conversation_history,
                                   messages_alias, user_message)
           file_ids == StagedFileIds(uploaded_files)
           r == IF ok THEN next_task_id ELSE None
       IN  /\ messages' = stored.messages
           /\ conversation_history' = stored.conversation_history
           /\ create_log' = Append(create_log,
                                   [text |-> input, file_ids |-> file_ids,
                                    previous_task_id |-> current_task_id,
                                    conv_tasks |-> conv_tasks,
                                    id |-> r])
           /\ conv_tasks' = IF ok THEN conv_tasks \cup {r} ELSE conv_tasks
           /\ history_tasks' =
                  IF ok /\ messages_alias # None
                  THEN [history_tasks EXCEPT ![messages_alias] = conv_tasks \cup {r}]
                  ELSE history_tasks
           /\ remote_call' = CreateTaskRequest(input, file_ids, "", agent_profile,
                                               current_task_id, timeout_seconds)
           /\ remote_status' = IF ok THEN "running" ELSE "none"
           /\ next_task_id' = IF ok THEN next_task_id + 1 ELSE next_task_id
           /\ at_send' = Session
           \* create_task shows its exception with st.error
           /\ errors' = IF ok THEN {} ELSE {[src |-> "create_task", arg |-> input]}
           /\ IF ResponseOk(r)
              THEN /\ current_task_id' = r
                   /\ task_count' = TaskCountAfter(task_count)
                   /\ response' = r
                   /\ pc' = "poll"
                   /\ placeholder' = "progress"
                   /\ outcome' = "polling"
                   /\ at_poll' = [Session EXCEPT
                                     !.messages = stored.messages,
                                     !.conversation_history = stored.conversation_history,
                                     !.current_task_id = r,
                                     !.task_count = TaskCountAfter(task_count)]
              ELSE /\ outcome' = "create_failed"
                   /\ at_poll' = NoSession
                   /\ UNCHANGED <<current_task_id, task_count, response, pc, placeholder>>
    /\ task_update' = "none"
    /\ poll_count' = 0
    /\ completed_task' = NoTask
    /\ NoUpload
    /\ replaced_len' = 0
    /\ UNCHANGED <<page, fnvars, uploaded_files, total_credits_used, messages_alias,
                   next_file_id, remote_files, remote_tasks, tmvars, fmvars,
                   credit_log>>

\* one iteration of `while True` up to its return or its sleep: the retrieval
\* reports status st with credit usage cu in its metadata
PollRetrieve(st, cu) ==
    /\ page = "app"
    /\ pc = "poll"
    /\ task_update' = st
    /\ IF ReturnsSnapshot(st)
       THEN /\ completed_task' = [id |-> response, status |-> st, credit_usage |-> cu]
            /\ pc' = "polled"
            /\ placeholder' = st
       ELSE /\ pc' = "sleep"
            /\ placeholder' = "processing"
            /\ UNCHANGED completed_task
    /\ remote_call' = [op |-> "retrieve", response_id |-> response]
    /\ UNCHANGED <<page, fnvars, appvars, response, poll_count, errors, remotevars,
                   tmvars, fmvars, ghostvars, remote_status>>

\* the retrieval raises: the except branch writes the error into the status
\* text of the placeholder and returns None
PollRaise ==
    /\ page = "app"
    /\ pc = "poll"
    /\ task_update' = "raised"
    /\ completed_task' = NoTask
    /\ pc' = "polled"
    /\ placeholder' = "error_checking_status"
    /\ remote_call' = [op |-> "retrieve", response_id |-> response]
    /\ UNCHANGED <<page, fnvars, appvars, response, poll_count, errors, remotevars,
                   tmvars, fmvars, ghostvars, remote_status>>

\* the loop giving up, as on a transport error, after MaxPollCount sleeps
PollSleepCapped ==
    /\ page = "app"
    /\ pc = "sleep"
    /\ poll_count' = IF poll_count < MaxPollCount THEN poll_count + 1 ELSE poll_count
    /\ pc' = IF poll_count < MaxPollCount THEN "poll" ELSE "polled"
    /\ UNCHANGED <<page, fnvars, appvars, response, task_update, completed_task,
                   shownvars, remotevars, tmvars, fmvars, ghostvars, requestvars>>

\* poll_count += 1; time.sleep(3).  The counter only feeds the progress bar;
\* the model stops counting at MaxPollCount.
PollSleep ==
    /\ page = "app"
    /\ pc = "sleep"
    /\ poll_count' = IF poll_count < MaxPollCount THEN poll_count + 1 ELSE poll_count
    /\ pc' = "poll"
    /\ UNCHANGED <<page, fnvars, appvars, response, task_update, completed_task,
                   shownvars, remotevars, tmvars, fmvars, ghostvars, requestvars>>

\* the remote service moves the task being polled to another status
RemoteAdvance(st) ==
    /\ page = "app"
    /\ pc \in {"poll", "sleep"}
    /\ st # remote_status
    /\ remote_status' = st
    /\ UNCHANGED <<page, fnvars, appvars, sendvars, shownvars, remotevars, tmvars,
                   fmvars, ghostvars, remote_call>>

\* the send flow after poll_task_status has returned: placeholder.empty(),
\* then, for a snapshot, the credits, the assistant message, the clearing of
\* the staging list and st.rerun()
SendFinish ==
    /\ page = "app"
    /\ pc = "polled"
    /\ pc' = "idle"
    /\ placeholder' = "empty"
    /\ IF SnapshotReturned(completed_task)
       THEN IF completed_task.credit_usage.kind = "nan"
            THEN \* int += non-number raises TypeError: the run stops there
                 /\ errors' = {[src |-> "exception", arg |-> "TypeError"]}
                 /\ outcome' = "exception"
                 /\ UNCHANGED <<appvars, credit_log>>
            ELSE LET credits_used == completed_task.credit_usage.n
                     assistant_message ==
                         [role |-> "assistant", content |-> "reply", files |-> <<>>,
                          task |-> completed_task.id, credits |-> credits_used]
                     stored == AppendMessage(messages, conversation_history,
                                             messages_alias, assistant_message)
                 IN  /\ total_credits_used' = CreditsAfter(total_credits_used, credits_used)
                     /\ credit_log' = Append(credit_log,
                                             [task |-> completed_task.id,
                                              credit_usage |-> credits_used])
                     /\ messages' = stored.messages
                     /\ conversation_history' = stored.conversation_history
                     /\ uploaded_files' = <<>>
                     /\ errors' = {}
                     /\ outcome' = "done"
                     /\ UNCHANGED <<current_task_id, task_count, messages_alias>>
       ELSE /\ outcome' = "poll_aborted"
            /\ UNCHANGED <<appvars, errors, credit_log>>
    /\ poll_count' = 0
    /\ remote_status' = "none"
    /\ UNCHANGED <<page, fnvars, response, task_update, completed_task, remotevars,
                   tmvars, fmvars, create_log, upload_batch, upload_log,
                   batch_ids, at_send, at_poll, remote_call, chainvars,
                   replaced_len>>

\* a send in a session of at most MaxCreates create_task calls
SendMessage(input, agent_profile, timeout_seconds, ok) ==
    SendMessageWithin(MaxCreates, input, agent_profile, timeout_seconds, ok)

(***************************************************************************)
(* task_manager.py.                                                        *)
(***************************************************************************)
\* the options of the multiselect Task Status
StatusOptions == {"completed", "running", "pending", "error"}

\* values of the number input Tasks to fetch (min 1, max 100)
Limits == {1, 2, 100}

\* the first n elements of s
Take(s, n) == SubSeq(s, 1, IF n < Len(s) THEN n ELSE Len(s))

\* what GET /v1/tasks?limit=..&status=.. answers: the tasks in one of the
\* given statuses (all tasks when none is given), at most limit of them
ListTasks(remote, status_filter, limit) ==
    LET Match(t) == status_filter = {} \/ t.status \in status_filter
    IN  Take(SelectSeq(remote, Match), limit)

\* fetch_tasks answering a call that raised with the tasks all the same
FetchTasksAnsweringFailure(remote, status_filter, limit, ok) ==
    [data |-> ListTasks(remote, status_filter, limit),
     errors |-> IF ok THEN {} ELSE {[src |-> "fetch_tasks", arg |-> ""]}]

\* fetch_tasks(client, status_filter, limit, search_query): the 'data' of the
\* answer, or, when the call raises, st.error and []
FetchTasks(remote, status_filter, limit, ok) ==
    [data |-> IF ok THEN ListTasks(remote, status_filter, limit) ELSE <<>>,
     errors |-> IF ok THEN {} ELSE {[src |-> "fetch_tasks", arg |-> ""]}]

\* delete_task(client, task_id): True after the remote delete, or st.error
\* and False when it raises
DeleteTask(remote, task_id, ok) ==
    [deleted |-> ok,
     remote |-> IF ok THEN SelectSeq(remote, LAMBDA t : t.id # task_id) ELSE remote,
     errors |-> IF ok THEN {} ELSE {[src |-> "delete_task", arg |-> ""]}]

\* the cached list losing the task that was deleted at the remote
TasksAfterDeleteDropping(cached, task_id, deleted) ==
    IF deleted THEN SelectSeq(cached, LAMBDA t : t.id # task_id) ELSE cached

\* st.session_state.tasks after delete_task and the Delete button: neither
\* writes to it (st.rerun() renders the cached list again)
TasksAfterDelete(cached, task_id, deleted) == cached

\* the name `client` is bound only inside the branch of the Fetch Tasks
\* button (line 201); a run started by any other button has no such name
ClientBound(button) == button = "fetch"

\* the selections the multiselect Task Status can hold: the chosen options
\* in the order they were chosen
StatusSelections ==
    {<<>>} \cup {<<a>> : a \in StatusOptions}
           \cup {s \in StatusOptions \X StatusOptions : s[1] # s[2]}

\* fetch_tasks sending only the first status of the filter
FetchTasksRequestFirstStatus(status_filter, limit) ==
    [op |-> "list_tasks", limit |-> limit,
     status |-> IF status_filter = <<>> THEN <<>> ELSE <<status_filter[1]>>]

\* the query string fetch_tasks builds: limit=<limit>, then one status=<s>
\* per status of the filter, in its order (the search text is left empty)
FetchTasksRequest(status_filter, limit) ==
    [op |-> "list_tasks", limit |-> limit,
     status |-> [k \in DOMAIN status_filter |-> status_filter[k]]]

\* the button Fetch Tasks: the result replaces the cached list
TM_FetchTasks(status_filter, limit, ok) ==
    /\ page = "tasks"
    /\ LET r == FetchTasks(remote_tasks, Range(status_filter), limit, ok)
       IN  /\ tasks' = r.data
           /\ errors' = r.errors
    /\ remote_call' = FetchTasksRequest(status_filter, limit)
    /\ has_tasks' = TRUE
    /\ replaced_len' = Len(tasks)
    /\ outcome' = IF ok THEN "fetched" ELSE "fetch_failed"
    /\ NoSend /\ NoUpload
    /\ UNCHANGED <<page, fnvars, appvars, pc, placeholder, remotevars, details,
                   fmvars, create_log, credit_log, chainvars>>

\* the button Delete of a task card.  Evaluating the argument `client` raises
\* NameError before delete_task is entered, and the run stops there.
TM_Delete(task_id, ok) ==
    /\ page = "tasks"
    /\ has_tasks
    /\ \E k \in DOMAIN tasks : tasks[k].id = task_id
    /\ IF ClientBound("delete")
       THEN LET r == DeleteTask(remote_tasks, task_id, ok)
            IN  /\ remote_tasks' = r.remote
                /\ tasks' = TasksAfterDelete(tasks, task_id, r.deleted)
                /\ errors' = r.errors
                /\ outcome' = IF r.deleted THEN "task_deleted" ELSE "task_delete_failed"
       ELSE /\ errors' = {[src |-> "exception", arg |-> "NameError"]}
            /\ outcome' = "task_delete_crashed"
            /\ UNCHANGED <<remote_tasks, tasks>>
    /\ NoSend /\ NoUpload
    /\ remote_call' = NoRequest
    /\ replaced_len' = 0
    /\ UNCHANGED <<page, fnvars, appvars, pc, placeholder, next_task_id,
                   next_file_id, remote_files, has_tasks, details, fmvars, create_log, credit_log, chainvars>>

\* the button View of a task card: the same unbound `client`
TM_View(task_id, ok) ==
    /\ page = "tasks"
    /\ has_tasks
    /\ \E k \in DOMAIN tasks : tasks[k].id = task_id
    /\ IF ClientBound("view")
       THEN /\ details' = IF ok THEN details \cup {task_id} ELSE details
            /\ errors' = IF ok THEN {} ELSE {[src |-> "get_task_details", arg |-> ""]}
            /\ outcome' = IF ok THEN "viewed" ELSE "view_failed"
       ELSE /\ errors' = {[src |-> "exception", arg |-> "NameError"]}
            /\ outcome' = "view_crashed"
            /\ UNCHANGED details
    /\ NoSend /\ NoUpload
    /\ remote_call' = NoRequest
    /\ replaced_len' = 0
    /\ UNCHANGED <<page, fnvars, appvars, pc, placeholder, remotevars, tasks,
                   has_tasks, fmvars, create_log, credit_log, chainvars>>

(***************************************************************************)
(* file_manager.py.                                                        *)
(***************************************************************************)
RECURSIVE NewestFirst(_)
\* client.files.list() as the Manage Files tab shows it under the default
\* sort Date (Newest); ids are handed out in the order of registration
NewestFirst(ids) ==
    IF ids = {} THEN <<>>
    ELSE LET m == CHOOSE x \in ids : \A y \in ids : y <= x
         IN  <<m>> \o NewestFirst(ids \ {m})

\* a failed delete that drops the file from the list all the same
ShownAfterDeleteOptimistic(shown, remote, file_id, ok) ==
    IF ok THEN NewestFirst(remote)
    ELSE SelectSeq(shown, LAMBDA x : x # file_id)

\* the list on the page after the button Delete of a file: st.rerun() and a
\* new listing after a successful delete, the rendered list otherwise
ShownAfterDelete(shown, remote, file_id, ok) ==
    IF ok THEN NewestFirst(remote) ELSE shown

\* the button Upload All Files; the same run then renders the Manage Files tab
FM_UploadAllFiles(batch) ==
    /\ page = "files"
    /\ next_file_id + Registrations(batch) <= MaxFileIds + 1
    /\ Len(upload_history) + Len(batch) <= MaxUploadHistory
    /\ LET r == UploadLoop(batch, 1, UploadStart(next_file_id))
       IN  /\ upload_results' = r.results
           /\ upload_history' = upload_history \o r.results
           /\ next_file_id' = r.next
           /\ remote_files' = remote_files \cup r.registered
           /\ files_shown' = NewestFirst(remote_files \cup r.registered)
           /\ errors' = r.errors
           /\ upload_batch' = batch
           /\ upload_log' = r.log
           /\ batch_ids' = r.ids
    /\ outcome' = "uploaded"
    /\ NoSend
    /\ remote_call' = NoRequest
    /\ UNCHANGED <<page, fnvars, appvars, pc, placeholder, next_task_id,
                   remote_tasks, tmvars, create_log, credit_log, chainvars,
                   replaced_len>>

\* a Delete button of the Manage Files tab (grid, list or detailed view)
FM_Delete(file_id, ok) ==
    /\ page = "files"
    /\ file_id \in Range(files_shown)
    /\ remote_files' = IF ok THEN remote_files \ {file_id} ELSE remote_files
    /\ files_shown' = ShownAfterDelete(files_shown, remote_files', file_id, ok)
    /\ errors' = IF ok THEN {} ELSE {[src |-> "delete_file", arg |-> ""]}
    /\ outcome' = IF ok THEN "file_deleted" ELSE "file_delete_failed"
    /\ upload_results' = <<>>
    /\ NoSend /\ NoUpload
    /\ remote_call' = NoRequest
    /\ UNCHANGED <<page, fnvars, appvars, pc, placeholder, next_task_id,
                   next_file_id, remote_tasks, tmvars, upload_history, create_log, credit_log, chainvars,
                   replaced_len>>

\* the button Refresh Files: a re-run; ok: client.files.list() returns
FM_Refresh(ok) ==
    /\ page = "files"
    /\ files_shown' = IF ok THEN NewestFirst(remote_files) ELSE <<>>
    /\ errors' = IF ok THEN {} ELSE {[src |-> "list_files", arg |-> ""]}
    /\ outcome' = IF ok THEN "listed" ELSE "list_failed"
    /\ upload_results' = <<>>
    /\ NoSend /\ NoUpload
    /\ remote_call' = NoRequest
    /\ UNCHANGED <<page, fnvars, appvars, pc, placeholder, remotevars, tmvars,
                   upload_history, create_log, credit_log, chainvars,
                   replaced_len>>

\* the button Clear History of the Upload History tab
FM_ClearHistory ==
    /\ page = "files"
    /\ upload_history # <<>>
    /\ upload_history' = <<>>
    /\ upload_results' = <<>>
    /\ files_shown' = NewestFirst(remote_files)
    /\ errors' = {}
    /\ outcome' = "history_cleared"
    /\ NoSend /\ NoUpload
    /\ remote_call' = NoRequest
    /\ UNCHANGED <<page, fnvars, appvars, pc, placeholder, remotevars, tmvars,
                   create_log, credit_log, chainvars,
                   replaced_len>>

(***************************************************************************)
(* Functions of the modules, called on their own (page = "library"): the   *)
(* arguments are drawn in Init, an action is one call.                     *)
(***************************************************************************)
\* everything but the call and its result
pagevars == <<page, appvars, sendvars, shownvars, remotevars, tmvars, fmvars,
              ghostvars, requestvars>>

\* a text as the sequence of its characters
TextDone == <<"D", "o", "n", "e", ".">>

\* the characters str.strip() removes
Whitespace == {" ", "\n"}

\* the fixed reply "Task completed successfully" (with its check mark), as
\* one token
DefaultReply == <<"Task completed successfully">>

RECURSIVE StripLeft(_)
\* str.lstrip()
StripLeft(t) ==
    IF t # <<>> /\ Head(t) \in Whitespace THEN StripLeft(Tail(t)) ELSE t

RECURSIVE StripRight(_)
\* str.rstrip()
StripRight(t) ==
    IF t # <<>> /\ t[Len(t)] \in Whitespace
    THEN StripRight(SubSeq(t, 1, Len(t) - 1))
    ELSE t

\* str.strip()
Strip(t) == StripRight(StripLeft(t))

RECURSIVE ExtractItems(_, _)
\* `for content_item in message.content`: a non-empty text is added with a
\* newline after it; otherwise the fileName of an output_file item is listed.
\* An item without a text attribute has the empty text here.
ExtractItems(content, acc) ==
    IF content = <<>> THEN acc
    ELSE LET content_item == Head(content)
         IN  ExtractItems(Tail(content),
                 IF content_item.text # <<>>
                 THEN [acc EXCEPT !.assistant_text = @ \o content_item.text \o <<"\n">>]
                 ELSE IF content_item.type = "output_file"
                 THEN [acc EXCEPT !.output_files = Append(@, content_item.fileName)]
                 ELSE acc)

RECURSIVE ExtractMessagesAnyRole(_, _)
\* the loop over the output without the test of the role
ExtractMessagesAnyRole(output, acc) ==
    IF output = <<>> THEN acc
    ELSE ExtractMessagesAnyRole(Tail(output), ExtractItems(Head(output).content, acc))

RECURSIVE ExtractMessages(_, _)
\* `for message in completed_task.output: if message.role == "assistant"`
ExtractMessages(output, acc) ==
    IF output = <<>> THEN acc
    ELSE ExtractMessages(Tail(output),
             IF Head(output).role = "assistant"
             THEN ExtractItems(Head(output).content, acc)
             ELSE acc)

\* the content and the output_files of the assistant message the send flow
\* stores for a snapshot with this output (no output attribute: the empty
\* output).  An empty output_files stands for a message without that key.
ExtractReply(output) ==
    LET acc == ExtractMessages(output, [assistant_text |-> <<>>, output_files |-> <<>>])
    IN  [content |-> IF acc.assistant_text # <<>>
                     THEN Strip(acc.assistant_text)
                     ELSE DefaultReply,
         output_files |-> acc.output_files]

\* ManusConfig.max_task_limit
max_task_limit == 100

\* ManusConfig.validate() with both ends of the timeout range rejected
ValidateExclusive(api_key, default_timeout_seconds, default_task_limit) ==
    IF api_key = "" THEN FALSE
    ELSE IF default_timeout_seconds <= 60 \/ default_timeout_seconds >= 600 THEN FALSE
    ELSE IF default_task_limit < 1 \/ default_task_limit > max_task_limit THEN FALSE
    ELSE TRUE

\* ManusConfig.validate() of a configuration with these fields ("": no key)
Validate(api_key, default_timeout_seconds, default_task_limit) ==
    IF api_key = "" THEN FALSE
    ELSE IF default_timeout_seconds < 60 \/ default_timeout_seconds > 600 THEN FALSE
    ELSE IF default_task_limit < 1 \/ default_task_limit > max_task_limit THEN FALSE
    ELSE TRUE

\* msg['role'].upper()
Upper(role) == IF role = "user" THEN "USER" ELSE "ASSISTANT"

\* the exported text, as its header and one entry per message; a message
\* without a timestamp has the empty one (msg.get('timestamp', ''))
Exported(msgs, format) ==
    IF format = "json"
    THEN [header |-> "[", entries |-> [k \in DOMAIN msgs |-> msgs[k]]]
    ELSE IF format = "markdown"
    THEN [header |-> "# Manus AI Conversation History",
          entries |-> [k \in DOMAIN msgs |->
                          [heading |-> Upper(msgs[k].role),
                           timestamp |-> msgs[k].timestamp,
                           content |-> msgs[k].content]]]
    ELSE IF format = "txt"
    THEN [header |-> "",
          entries |-> [k \in DOMAIN msgs |->
                          [role |-> Upper(msgs[k].role),
                           content |-> msgs[k].content]]]
    ELSE [header |-> "", entries |-> <<>>]

\* export_conversation_history emptying the list it walks through
ExportConversationHistoryConsuming(msgs, format) ==
    [out |-> Exported(msgs, format), messages |-> <<>>]

\* export_conversation_history(messages, format): the text returned and the
\* list object `messages` as the call leaves it
ExportConversationHistory(msgs, format) ==
    [out |-> Exported(msgs, format), messages |-> msgs]

\* messages of a task output the library calls draw from
MaxOutputMessages == 2
\* content items of one such message
MaxContentItems == 2
\* messages of a conversation handed to export_conversation_history
MaxExportMessages == 2

\* content items of a task output
ContentItems ==
    {[type |-> "output_text", text |-> t, fileName |-> ""] :
        t \in {<<>>, TextDone, <<"a">>, <<" ", "a">>}}
    \cup {[type |-> "output_file", text |-> <<>>, fileName |-> "f.csv"],
          [type |-> "output_file", text |-> <<"a">>, fileName |-> "g.csv"]}

\* messages of a task output
OutputMessages ==
    {[role |-> r, content |-> c] :
        r \in {"assistant", "user"},
        c \in {<<>>} \cup SeqUpTo(ContentItems, MaxContentItems)}

\* conversations handed to export_conversation_history
ExportMessages ==
    {[role |-> r, content |-> c, timestamp |-> t] :
        r \in {"user", "assistant"}, c \in {"q", "reply"}, t \in {"", "12:00"}}

\* the task lists the remote can hold when the task manager starts
RemoteTaskLists ==
    {[k \in 1..MaxRemoteTasks |-> [id |-> k, status |-> f[k]]] :
        f \in [1..MaxRemoteTasks -> StatusOptions]}

\* the calls of the library
LibraryCalls ==
    {[fn |-> "create_task", user_input |-> u, uploaded_file_ids |-> ids,
      image_url |-> img, agent_profile |-> ap, previous_task_id |-> prev,
      timeout_seconds |-> t] :
        u \in Inputs, ids \in {<<>>} \cup SeqUpTo(1..MaxFileIds, MaxBatch),
        img \in {"", "img"}, ap \in AgentProfiles, prev \in {None, 1},
        t \in TimeoutValues}
    \cup {[fn |-> "extract_reply", output |-> o] :
             o \in {<<>>} \cup SeqUpTo(OutputMessages, MaxOutputMessages)}
    \cup {[fn |-> "validate", api_key |-> k, default_timeout_seconds |-> t,
           default_task_limit |-> l] :
             k \in {"", "key"}, t \in {59, 60, 599, 600, 601},
             l \in {0, 1, 50, 100, 101}}
    \cup {[fn |-> "fetch_tasks", status_filter |-> sf, limit |-> l] :
             sf \in StatusSelections, l \in {0, 1, 50, 100, 101}}
    \cup {[fn |-> "delete_task", cached |-> c, task_id |-> t, ok |-> ok] :
             c \in RemoteTaskLists, t \in 1..MaxRemoteTasks, ok \in BOOLEAN}
    \cup {[fn |-> "export_conversation_history", messages |-> m, format |-> f] :
             m \in {<<>>} \cup SeqUpTo(ExportMessages, MaxExportMessages),
             f \in {"json", "markdown", "txt", "csv"}}

\* create_task(...) up to the request it hands to the client
CallCreateTask ==
    /\ page = "library"
    /\ fn_call.fn = "create_task"
    /\ fn_ret' = [value |-> CreateTaskRequest(fn_call.user_input,
                                              fn_call.uploaded_file_ids,
                                              fn_call.image_url,
                                              fn_call.agent_profile,
                                              fn_call.previous_task_id,
                                              fn_call.timeout_seconds)]
    /\ UNCHANGED <<pagevars, fn_call>>

\* the lines `Extract response text` and `Store assistant message` of the
\* send flow, for a snapshot with output fn_call.output
CallExtractReply ==
    /\ page = "library"
    /\ fn_call.fn = "extract_reply"
    /\ fn_ret' = [value |-> ExtractReply(fn_call.output)]
    /\ UNCHANGED <<pagevars, fn_call>>

\* ManusConfig(...).validate()
CallValidate ==
    /\ page = "library"
    /\ fn_call.fn = "validate"
    /\ fn_ret' = [value |-> Validate(fn_call.api_key,
                                     fn_call.default_timeout_seconds,
                                     fn_call.default_task_limit)]
    /\ UNCHANGED <<pagevars, fn_call>>

\* fetch_tasks(client, status_filter, limit) up to the request it sends
CallFetchTasks ==
    /\ page = "library"
    /\ fn_call.fn = "fetch_tasks"
    /\ fn_ret' = [value |-> FetchTasksRequest(fn_call.status_filter, fn_call.limit)]
    /\ UNCHANGED <<pagevars, fn_call>>

\* delete_task(client, task_id) called with a client, in a session whose
\* cached list is what the remote held
CallDeleteTask ==
    /\ page = "library"
    /\ fn_call.fn = "delete_task"
    /\ LET r == DeleteTask(remote_tasks, fn_call.task_id, fn_call.ok)
       IN  /\ remote_tasks' = r.remote
           /\ tasks' = TasksAfterDelete(tasks, fn_call.task_id, r.deleted)
           /\ errors' = r.errors
           /\ fn_ret' = [value |-> r.deleted]
    /\ UNCHANGED <<page, fn_call, appvars, sendvars, placeholder, next_task_id,
                   next_file_id, remote_files, has_tasks, details, fmvars,
                   ghostvars, requestvars>>

\* export_conversation_history(messages, format); the call may be repeated
CallExport ==
    /\ page = "library"
    /\ fn_call.fn = "export_conversation_history"
    /\ LET r == ExportConversationHistory(fn_call.messages, fn_call.format)
       IN  /\ fn_ret' = [value |-> r.out]
           /\ fn_call' = [fn_call EXCEPT !.messages = r.messages]
    /\ UNCHANGED pagevars

(***************************************************************************)
(* The specification.                                                      *)
(***************************************************************************)
Init ==
    /\ page \in Pages \cup {"library"}
    /\ fn_call \in (IF page = "library" THEN LibraryCalls ELSE {NoCall})
    /\ fn_ret = NoCall
    /\ messages = <<>>
    /\ current_task_id = None
    /\ uploaded_files = <<>>
    /\ conversation_history = <<>>
    /\ total_credits_used = 0
    /\ task_count = 0
    /\ messages_alias = None
    /\ pc = "idle"
    /\ response = None
    /\ task_update = "none"
    /\ poll_count = 0
    /\ completed_task = NoTask
    /\ errors = {}
    /\ placeholder = "empty"
    /\ next_task_id = 1
    /\ next_file_id = 1
    /\ remote_files = {}
    /\ remote_tasks \in (IF page = "tasks" THEN RemoteTaskLists
                         ELSE IF fn_call.fn = "delete_task" THEN {fn_call.cached}
                         ELSE {<<>>})
    /\ tasks = (IF fn_call.fn = "delete_task" THEN fn_call.cached ELSE <<>>)
    /\ has_tasks = (fn_call.fn = "delete_task")
    /\ details = {}
    /\ upload_history = <<>>
    /\ upload_results = <<>>
    /\ files_shown = <<>>
    /\ create_log = <<>>
    /\ credit_log = <<>>
    /\ upload_batch = <<>>
    /\ upload_log = <<>>
    /\ batch_ids = <<>>
    /\ at_send = NoSession
    /\ at_poll = NoSession
    /\ outcome = "none"
    /\ conv_tasks = {}
    /\ history_tasks = <<>>
    /\ replaced_len = 0
    /\ remote_status = "none"
    /\ remote_call = NoRequest

Next ==
    \/ \E batch \in Batches : ProcessAllUploads(batch)
    \/ ClearFiles
    \/ NewChat
    \/ \E i \in 1..MaxHistory : Load(i)
    \/ \E input \in Inputs, agent_profile \in AgentProfiles,
          timeout_seconds \in TimeoutValues, ok \in BOOLEAN :
           SendMessage(input, agent_profile, timeout_seconds, ok)
    \/ \E st \in Statuses : RemoteAdvance(st)
    \/ \E cu \in CreditUsages : PollRetrieve(remote_status, cu)
    \/ PollRaise
    \/ PollSleep
    \/ SendFinish
    \/ \E sf \in StatusSelections, limit \in Limits, ok \in BOOLEAN :
           TM_FetchTasks(sf, limit, ok)
    \/ \E t \in 1..MaxRemoteTasks, ok \in BOOLEAN : TM_Delete(t, ok)
    \/ \E t \in 1..MaxRemoteTasks, ok \in BOOLEAN : TM_View(t, ok)
    \/ \E batch \in FmBatches : FM_UploadAllFiles(batch)
    \/ \E f \in 1..MaxFileIds, ok \in BOOLEAN : FM_Delete(f, ok)
    \/ \E ok \in BOOLEAN : FM_Refresh(ok)
    \/ FM_ClearHistory
    \/ CallCreateTask
    \/ CallExtractReply
    \/ CallValidate
    \/ CallFetchTasks
    \/ CallDeleteTask
    \/ CallExport

Spec == Init /\ [][Next]_vars

\* the calls of the library alone
LibraryInit == Init /\ page = "library"

LibraryNext ==
    \/ CallCreateTask
    \/ CallExtractReply
    \/ CallValidate
    \/ CallFetchTasks
    \/ CallDeleteTask
    \/ CallExport

LibrarySpec == LibraryInit /\ [][LibraryNext]_vars

\* task_manager.py alone: the buttons of the page, and fetch_tasks and
\* delete_task called on their own
TasksInit ==
    /\ Init
    /\ page = "tasks" \/ fn_call.fn \in {"fetch_tasks", "delete_task"}

TasksNext ==
    \/ \E sf \in StatusSelections, limit \in Limits, ok \in BOOLEAN :
           TM_FetchTasks(sf, limit, ok)
    \/ \E t \in 1..MaxRemoteTasks, ok \in BOOLEAN : TM_Delete(t, ok)
    \/ \E t \in 1..MaxRemoteTasks, ok \in BOOLEAN : TM_View(t, ok)
    \/ CallFetchTasks
    \/ CallDeleteTask

TasksSpec == TasksInit /\ [][TasksNext]_vars

\* a session of the chat page that only converses: sends with the default
\* widget values, tasks that complete without a credit entry or whose
\* retrieval raises, New Chat and Load
ChainInit == Init /\ page = "app"

ChainNext ==
    \/ NewChat
    \/ \E i \in 1..MaxHistory : Load(i)
    \/ \E ok \in BOOLEAN : SendMessageWithin(MaxChainCreates, "q", "quality", 300, ok)
    \/ RemoteAdvance("completed")
    \/ PollRetrieve(remote_status, [kind |-> "absent", n |-> 0])
    \/ PollRaise
    \/ PollSleep
    \/ SendFinish

ChainSpec == ChainInit /\ [][ChainNext]_vars

\* one step of the loop `while True` of poll_task_status: a retrieval, which
\* returns or raises, or the end of time.sleep(3)
PollStep ==
    \/ \E cu \in CreditUsages : PollRetrieve(remote_status, cu)
    \/ PollRaise
    \/ PollSleep

\* the script keeps running while it is inside the loop: every retrieval
\* ends, by returning or by raising, and every sleep ends
LiveSpec == Spec /\ WF_vars(PollStep)

(***************************************************************************)
(* Properties.                                                             *)
(***************************************************************************)
RECURSIVE SumCredits(_)
\* the sum of the credit usages a log records
SumCredits(log) ==
    IF log = <<>> THEN 0
    ELSE log[1].credit_usage + SumCredits(Tail(log))

\* the registration calls of a call log, in order
RegisterCalls(log) == SelectSeq(log, LAMBDA c : c.op = "register")

\* the send flow is inside poll_task_status
Polling == pc \in {"poll", "sleep"}

\* C1, as stated: a retrieval that reports completed, error or pending_input
\* ends the loop there: no sleep follows it and the snapshot it delivered is
\* what poll_task_status returns.
C1_StopsAtPendingInput ==
    /\ Polling => task_update \notin {"completed", "error", "pending_input"}
    /\ (pc = "polled" /\ task_update \in {"completed", "error", "pending_input"})
         => (completed_task.id = response /\ completed_task.status = task_update)

\* C1, amended: a retrieval that reports completed, error or pending (the
\* name the code tests) ends the loop there: the loop neither sleeps nor
\* retrieves again after it, the snapshot returned is the one of that
\* retrieval, and the task polled is always the one created last, so a task
\* whose poll has returned is never retrieved again.
C1_PollStopsAtTerminal ==
    /\ Polling => (task_update \notin {"completed", "error", "pending"}
                     /\ completed_task = NoTask)
    /\ (pc = "polled" /\ task_update \in {"completed", "error", "pending"})
         => (completed_task.id = response /\ completed_task.status = task_update)
    /\ (Polling \/ pc = "polled")
         => (response = Last(create_log).id /\ response = next_task_id - 1)

\* C1 witness: the poll has returned the snapshot of a pending task.
C1_Witness ==
    /\ pc = "polled"
    /\ task_update = "pending"
    /\ completed_task.status = "pending"
    /\ completed_task.id = response

\* the ids of the staged files
StagedIds == {uploaded_files[k].id : k \in DOMAIN uploaded_files}

\* the last operation was a send, which has ended
SendEnded == pc = "idle" /\ outcome \in {"create_failed", "done", "poll_aborted", "exception"}

\* C2, as stated, in the case it names: when a send that created a task has
\* ended, with a snapshot or with its poll aborted by a transport error, the
\* file ids attached to that task are no longer staged, so the next
\* create_task call cannot carry them.
C2_AttachedFilesUnstaged ==
    (SendEnded /\ outcome \in {"done", "poll_aborted"})
        => StagedIds \cap Range(Last(create_log).file_ids) = {}

\* C3: the credit usage of a task's terminal snapshot is added to the counter
\* once, by the send that received the snapshot and after the poll returned;
\* while the poll runs, and when the send ends without a snapshot, the
\* counter has the value it had when the send started.
C3_CreditsAddedOnce ==
    /\ (Polling \/ pc = "polled")
         => total_credits_used = at_send.total_credits_used
    /\ outcome = "done"
         => /\ total_credits_used
                 = at_send.total_credits_used + completed_task.credit_usage.n
            /\ Last(credit_log) = [task |-> completed_task.id,
                                   credit_usage |-> completed_task.credit_usage.n]
    /\ outcome \in {"create_failed", "poll_aborted", "exception"}
         => total_credits_used = at_send.total_credits_used
    /\ \A i, j \in DOMAIN credit_log :
           credit_log[i].task = credit_log[j].task => i = j
    /\ total_credits_used = SumCredits(credit_log)

\* C3 witness: a second task has ended and its 5 credits are counted.
C3_Witness ==
    /\ outcome = "done"
    /\ Len(credit_log) = 2
    /\ completed_task.credit_usage = [kind |-> "num", n |-> 5]
    /\ total_credits_used = at_send.total_credits_used + 5

\* C4, as stated: the counter starts at 0, no step decreases it whatever the
\* remote reports, and two tasks reporting 5 leave it at 10.
C4_NeverDecreases ==
    /\ total_credits_used = 0
    /\ [][total_credits_used' >= total_credits_used]_vars
    /\ [](/\ Len(credit_log) = 2
          /\ \A k \in DOMAIN credit_log : credit_log[k].credit_usage = 5
          => total_credits_used = 10)

\* C4, amended: the counter starts at 0; the only step that decreases it is
\* the end of a send whose snapshot reports a negative credit usage, so it is
\* monotonic as long as the remote reports none; two tasks reporting 5 leave
\* it at 10.
C4_MonotonicUnlessNegativeReport ==
    /\ total_credits_used = 0
    /\ [][total_credits_used' < total_credits_used
            => (pc = "polled" /\ completed_task.credit_usage.n < 0)]_vars
    /\ [](/\ Len(credit_log) = 2
          /\ \A k \in DOMAIN credit_log : credit_log[k].credit_usage = 5
          => total_credits_used = 10)

\* C4 witness: two tasks have reported 5 credits each.
C4_Witness ==
    /\ Len(credit_log) = 2
    /\ \A k \in DOMAIN credit_log : credit_log[k].credit_usage = 5
    /\ total_credits_used = 10

\* C5: after a send whose create call raised, no retrieval was made and the
\* poll was not entered; current_task_id, task_count, the credit counter and
\* the staging list are as before the send, and the conversation has gained
\* the user message and nothing else.
C5_CreateFailureStopsSend ==
    (outcome \in {"polling", "create_failed"} /\ Last(create_log).id = None)
        => /\ outcome = "create_failed"
           /\ pc = "idle"
           /\ task_update = "none"
           /\ completed_task = NoTask
           /\ current_task_id = at_send.current_task_id
           /\ task_count = at_send.task_count
           /\ total_credits_used = at_send.total_credits_used
           /\ uploaded_files = at_send.uploaded_files
           /\ Len(messages) = Len(at_send.messages) + 1
           /\ SubSeq(messages, 1, Len(at_send.messages)) = at_send.messages
           /\ Last(messages).role = "user"

\* C5 witness: a create call failed in a conversation that has a task and
\* staged files.
C5_Witness ==
    /\ outcome = "create_failed"
    /\ at_send.current_task_id # None
    /\ uploaded_files # <<>>

\* C6, as stated: after a send whose poll was aborted by a transport error,
\* the session state is the one from before the send.
C6_AbortRestoresStateBeforeSend ==
    (SendEnded /\ task_update = "raised") => Session = at_send

\* C6, amended: the abort itself changes nothing.  After such a send the
\* session state is the one polling began with: the staging list, the credit
\* counter and the number of history entries are as before the send, no
\* assistant message is recorded, and what the send did before polling
\* stays: the user message, task_count raised by one and current_task_id set
\* to the created task.
C6_AbortKeepsStateOfPollStart ==
    (SendEnded /\ task_update = "raised")
        => /\ outcome = "poll_aborted"
           /\ Session = at_poll
           /\ uploaded_files = at_send.uploaded_files
           /\ total_credits_used = at_send.total_credits_used
           /\ Len(conversation_history) = Len(at_send.conversation_history)
           /\ Len(messages) = Len(at_send.messages) + 1
           /\ SubSeq(messages, 1, Len(at_send.messages)) = at_send.messages
           /\ Last(messages).role = "user"
           /\ task_count = at_send.task_count + 1
           /\ current_task_id = Last(create_log).id
           /\ current_task_id # None

\* C6 witness: a poll was aborted in a conversation that has messages, with
\* files staged.
C6_Witness ==
    /\ outcome = "poll_aborted"
    /\ task_update = "raised"
    /\ uploaded_files # <<>>
    /\ at_send.messages # <<>>

\* C7, as stated: once an operation that failed has finished, its error
\* message is on the page.
C7_EveryFailureVisible ==
    /\ outcome = "create_failed" => \E e \in errors : e.src = "create_task"
    /\ outcome = "poll_aborted" => placeholder = "error_checking_status"
    /\ outcome = "uploaded"
         => \A i \in DOMAIN upload_batch :
                upload_batch[i].outcome # "ok"
                    => [src |-> "upload", arg |-> upload_batch[i].name] \in errors
    /\ outcome = "fetch_failed" => \E e \in errors : e.src = "fetch_tasks"
    /\ outcome \in {"task_delete_failed", "task_delete_crashed",
                    "view_failed", "view_crashed"} => errors # {}
    /\ outcome = "file_delete_failed" => \E e \in errors : e.src = "delete_file"

\* C8: after an upload batch on either page, every file of the batch had its
\* registration attempted, in input order, and no file whose registration or
\* PUT failed is staged (chat page) or has a file id in its record (file
\* manager).
C8_FailedFileExcludedBatchContinues ==
    outcome = "uploaded"
        => /\ Len(RegisterCalls(upload_log)) = Len(upload_batch)
           /\ \A i \in DOMAIN upload_batch :
                  RegisterCalls(upload_log)[i].name = upload_batch[i].name
           /\ \A i \in DOMAIN upload_batch :
                  upload_batch[i].outcome # "ok"
                      => /\ page = "app"
                              => \A k \in DOMAIN uploaded_files :
                                     uploaded_files[k].id # batch_ids[i]
                         /\ page = "files"
                              => /\ upload_results[i].file_id = None
                                 /\ upload_results[i].status = "failed"

\* C8 witness: the PUT of the first file failed and the second file of the
\* batch was uploaded and staged.
C8_Witness ==
    /\ outcome = "uploaded"
    /\ page = "app"
    /\ Len(upload_batch) = 2
    /\ upload_batch[1].outcome = "put_fail"
    /\ upload_batch[2].outcome = "ok"
    /\ Len(uploaded_files) = 1
    /\ uploaded_files[1].id = batch_ids[2]

\* C9, as stated: a file over the size limit gets a record with status
\* rejected and no remote call; a batch of a good file, an oversized file
\* and a file whose registration fails yields success, rejected, failed.
C9_OversizedRejected ==
    (outcome = "uploaded" /\ page = "files")
        => /\ \A i \in DOMAIN upload_batch :
                  upload_batch[i].size > max_file_size_mb
                      => /\ upload_results[i].status = "rejected"
                         /\ upload_results[i].file_id = None
           /\ Len(RegisterCalls(upload_log))
                 = Cardinality({i \in DOMAIN upload_batch :
                                    upload_batch[i].size <= max_file_size_mb})
           /\ (/\ Len(upload_batch) = 3
               /\ upload_batch[1].size <= max_file_size_mb
               /\ upload_batch[1].outcome = "ok"
               /\ upload_batch[2].size > max_file_size_mb
               /\ upload_batch[3].size <= max_file_size_mb
               /\ upload_batch[3].outcome = "reg_fail")
                 => /\ [i \in 1..3 |-> upload_results[i].status]
                         = <<"success", "rejected", "failed">>
                    /\ upload_results[1].file_id # None
                    /\ upload_results[2].file_id = None
                    /\ upload_results[3].file_id = None

\* C10: a delete that failed leaves the cached task list and the displayed
\* file list as they were, and a delete step removes from the displayed file
\* list only files the remote has deleted in that step.
C10_FailedDeleteKeepsItem ==
    [][/\ outcome' \in {"task_delete_failed", "task_delete_crashed"}
            => (tasks' = tasks /\ has_tasks' = has_tasks)
       /\ outcome' = "file_delete_failed"
            => (files_shown' = files_shown /\ remote_files' = remote_files)
       /\ outcome' \in {"file_deleted", "file_delete_failed"}
            => (Range(files_shown) \ Range(files_shown'))
                   \subseteq (remote_files \ remote_files')]_vars

\* C10 witness: the delete of a displayed file has failed; the file is still
\* displayed and the error is shown.
C10_Witness ==
    /\ outcome = "file_delete_failed"
    /\ Len(files_shown) = 2
    /\ Range(files_shown) = remote_files
    /\ \E e \in errors : e.src = "delete_file"

\* C11: New Chat on a non-empty active conversation appends exactly one
\* history entry, whose messages are the active conversation of that moment,
\* and leaves every earlier entry in place; afterwards the active
\* conversation and the staging list are empty and current_task_id is None.
C11_NewChatSavesAndResets ==
    [][(outcome' = "new_chat" /\ messages # <<>>)
          => /\ Len(conversation_history') = Len(conversation_history) + 1
             /\ SubSeq(conversation_history', 1, Len(conversation_history))
                    = conversation_history
             /\ Last(conversation_history').messages = messages
             /\ messages' = <<>>
             /\ uploaded_files' = <<>>
             /\ current_task_id' = None]_vars

\* C11 witness: New Chat has saved a conversation behind an earlier entry.
C11_Witness ==
    /\ outcome = "new_chat"
    /\ Len(conversation_history) = 2
    /\ Last(conversation_history).messages # <<>>
    /\ messages = <<>>

\* the statuses the claim names as terminal
ClaimedTerminal == {"completed", "error", "pending_input"}

\* the statuses poll_task_status compares with
ComparedTerminal == {"completed", "error", "pending"}

\* C12, as stated: the loop cannot go on for ever while the remote task stays
\* in one of the statuses completed, error and pending_input.
C12_ReturnsOnPendingInput ==
    \A s \in ClaimedTerminal : []<>~(Polling /\ remote_status = s)

\* C12: the loop cannot go on for ever while the remote task stays in one of
\* the statuses completed, error and pending; when it returns without a transport error it
\* returns the snapshot of such a status, the one last retrieved; a retrieval
\* of any other status is followed by a sleep and another retrieval, whatever
\* the number of iterations made.
C12_PollReturnsOnComparedTerminal ==
    /\ \A s \in ComparedTerminal : []<>~(Polling /\ remote_status = s)
    /\ []((pc = "polled" /\ task_update # "raised")
             => /\ task_update \in ComparedTerminal
                /\ completed_task.status = task_update
                /\ completed_task.id = response)
    /\ [][(pc = "poll" /\ remote_status \notin ComparedTerminal
              /\ task_update' # "raised")
             => pc' \in {"poll", "sleep"}]_vars
    /\ [][pc = "sleep" => pc' \in {"sleep", "poll"}]_vars

\* C12 witness: the remote task reached pending while the loop was asleep, and
\* the retrieval after that sleep returned its snapshot.
C12_Witness ==
    /\ pc = "polled"
    /\ poll_count >= 1
    /\ remote_status = "pending"
    /\ completed_task.status = "pending"

\* the last send has ended after poll_task_status returned a snapshot
SnapshotHandled == SendEnded /\ completed_task # NoTask

\* the send has appended one assistant message for the returned snapshot
AssistantMessageAppended ==
    /\ Len(messages) = Len(at_poll.messages) + 1
    /\ SubSeq(messages, 1, Len(at_poll.messages)) = at_poll.messages
    /\ Last(messages).role = "assistant"
    /\ Last(messages).task = completed_task.id

\* C13, as stated: when the task of a send ended in status error, the poll
\* returned its snapshot and the send appended one assistant message, added
\* the task's credit usage and cleared the staging list, as for a completed
\* task.
C13_ErrorTaskHandledAsResult ==
    (SendEnded /\ task_update = "error")
        => /\ completed_task # NoTask
           /\ completed_task.status = "error"
           /\ outcome = "done"
           /\ AssistantMessageAppended
           /\ credit_log # <<>>
           /\ Last(credit_log).task = completed_task.id
           /\ uploaded_files = <<>>

\* C17, as stated: when the snapshot's metadata has no credit_usage, or one
\* that is not a number, the send counts 0 credits, completes normally and
\* appends the assistant message.
C17_NoNumberCountsZero ==
    (SnapshotHandled /\ completed_task.credit_usage.kind \in {"absent", "nan"})
        => /\ outcome = "done"
           /\ total_credits_used = at_poll.total_credits_used
           /\ AssistantMessageAppended
           /\ Last(messages).credits = 0

\* the number of calls op made for files named name that a call log records
CallsOf(log, op, name) ==
    Len(SelectSeq(log, LAMBDA c : c.op = op /\ c.name = name))

\* the number of files named name in a batch
FilesNamed(batch, name) ==
    Len(SelectSeq(batch, LAMBDA f : f.name = name))

\* C14: nothing is retried.  A send makes exactly one create call, when it
\* starts, and none while it polls or finishes; an upload batch makes at most
\* one registration and at most one PUT per file; once a retrieval has raised,
\* the send makes no further request.
C14_NoRetry ==
    /\ [][/\ Len(create_log') \in {Len(create_log), Len(create_log) + 1}
          /\ pc # "idle" => create_log' = create_log]_vars
    /\ [](\A f \in LocalFiles :
             /\ CallsOf(upload_log, "register", f.name) <= FilesNamed(upload_batch, f.name)
             /\ CallsOf(upload_log, "put", f.name) <= FilesNamed(upload_batch, f.name))
    /\ [][(pc = "polled" /\ task_update = "raised")
             => /\ pc' \in {"polled", "idle"}
                /\ remote_call' = remote_call]_vars

\* C14 witness: a send has ended after a retrieval raised, having
\* made one create call and no request after the failed retrieval.
C14_Witness ==
    /\ outcome = "poll_aborted"
    /\ pc = "idle"
    /\ poll_count = 0
    /\ placeholder = "empty"
    /\ at_poll.task_count = 1
    /\ Len(create_log) = 1
    /\ remote_call = [op |-> "retrieve", response_id |-> Last(create_log).id]

\* the library call fn has returned
Returned(fn) == fn_call.fn = fn /\ fn_ret # NoCall

\* C15: the request of create_task has one user entry whose content list is
\* one input_text item with the user's text, then one input_file item per
\* given file id in the given order, then the input_image item when an image
\* url was given, and nothing else; agent_profile and timeout_seconds are
\* fields of extra_body and of no content item.
C15_ContentOrder ==
    Returned("create_task")
        => LET request == fn_ret.value
               content == request.input[1].content
               ids == fn_call.uploaded_file_ids
               images == IF fn_call.image_url # "" THEN 1 ELSE 0
           IN  /\ Len(request.input) = 1
               /\ Len(content) = 1 + Len(ids) + images
               /\ content[1] = [type |-> "input_text", text |-> fn_call.user_input]
               /\ \A k \in DOMAIN ids :
                      content[1 + k] = [type |-> "input_file", file_id |-> ids[k]]
               /\ images = 1
                      => content[Len(content)]
                            = [type |-> "input_image", image_url |-> fn_call.image_url]
               /\ \A k \in DOMAIN content :
                      DOMAIN content[k] \cap {"agent_profile", "timeout_seconds"} = {}
               /\ request.extra_body.agent_profile = fn_call.agent_profile
               /\ request.extra_body.timeout_seconds = fn_call.timeout_seconds

\* C15 witness: create_task was called with two file ids and an image url.
C15_Witness ==
    /\ Returned("create_task")
    /\ Len(fn_call.uploaded_file_ids) = 2
    /\ fn_call.uploaded_file_ids[1] # fn_call.uploaded_file_ids[2]
    /\ fn_call.image_url = "img"
    /\ Len(fn_ret.value.input[1].content) = 4

RECURSIVE AssistantItems(_)
\* the content items of the assistant-role messages of an output, in message
\* order and content-item order
AssistantItems(output) ==
    IF output = <<>> THEN <<>>
    ELSE (IF Head(output).role = "assistant" THEN Head(output).content ELSE <<>>)
         \o AssistantItems(Tail(output))

RECURSIVE JoinLines(_)
\* '\n'.join(texts)
JoinLines(texts) ==
    IF texts = <<>> THEN <<>>
    ELSE IF Len(texts) = 1 THEN texts[1]
    ELSE texts[1] \o <<"\n">> \o JoinLines(Tail(texts))

\* the texts, and the file names, of a sequence of content items
TextsOf(items) == [k \in DOMAIN items |-> items[k].text]
FileNamesOf(items) == [k \in DOMAIN items |-> items[k].fileName]

\* the output of the claim's example: one assistant message with the text
\* 'Done.'
ExampleOutput ==
    <<[role |-> "assistant",
       content |-> <<[type |-> "output_text", text |-> TextDone, fileName |-> ""]>>]>>

\* C16, as stated: the recorded reply is the newline-joined concatenation of
\* the texts of all text items of the assistant-role messages, and the
\* output-file list holds every output_file item of those messages, both in
\* message order and content-item order.
C16_ReplyIsNewlineJoin ==
    Returned("extract_reply")
        => LET items == AssistantItems(fn_call.output)
               text_items == SelectSeq(items, LAMBDA i : i.type = "output_text")
               file_items == SelectSeq(items, LAMBDA i : i.type = "output_file")
           IN  /\ fn_ret.value.content = JoinLines(TextsOf(text_items))
               /\ fn_ret.value.output_files = FileNamesOf(file_items)

\* C16: the recorded reply is made of the non-empty texts of the content
\* items of the assistant-role messages only, in message order and
\* content-item order, joined by newlines and stripped of leading and
\* trailing whitespace; it is the fixed reply when there is no such text.
\* The output-file list holds the fileName of every output_file item of those
\* messages that carries no text, in the same order.  For the example output
\* the reply is 'Done.' and the list is empty.
C16_ReplyIsStrippedJoinOrDefault ==
    Returned("extract_reply")
        => LET items == AssistantItems(fn_call.output)
               with_text == SelectSeq(items, LAMBDA i : i.text # <<>>)
               file_items == SelectSeq(items, LAMBDA i : i.text = <<>> /\ i.type = "output_file")
           IN  /\ fn_ret.value.content
                      = IF with_text = <<>> THEN DefaultReply
                        ELSE Strip(JoinLines(TextsOf(with_text)))
               /\ fn_ret.value.output_files = FileNamesOf(file_items)
               /\ fn_call.output = ExampleOutput
                      => /\ fn_ret.value.content = TextDone
                         /\ fn_ret.value.output_files = <<>>

\* C16 witness: the reply of an output whose user message carries a text and
\* whose assistant message carries a text with a leading blank and a file.
C16_Witness ==
    /\ Returned("extract_reply")
    /\ Len(fn_call.output) = 2
    /\ fn_call.output[1].role = "user"
    /\ fn_call.output[1].content = <<[type |-> "output_text", text |-> TextDone, fileName |-> ""]>>
    /\ fn_call.output[2].role = "assistant"
    /\ fn_call.output[2].content
           = <<[type |-> "output_text", text |-> <<" ", "a">>, fileName |-> ""],
               [type |-> "output_file", text |-> <<>>, fileName |-> "f.csv"]>>
    /\ fn_ret.value = [content |-> <<"a">>, output_files |-> <<"f.csv">>]

\* C18: for a configuration whose other fields are valid, validate() accepts
\* the timeout exactly when it lies in [60,600], bounds included (599 and 600
\* accepted, 59 and 601 rejected); a timeout outside the range is rejected
\* whatever the other fields hold; and every create request of the chat page
\* carries a timeout_seconds within [60,600].
C18_TimeoutRange ==
    /\ Returned("validate")
           => LET t == fn_call.default_timeout_seconds
                  others_valid == /\ fn_call.api_key # ""
                                  /\ fn_call.default_task_limit \in 1..max_task_limit
              IN  /\ others_valid => (fn_ret.value <=> t \in 60..600)
                  /\ t \notin 60..600 => fn_ret.value = FALSE
    /\ remote_call.op = "create"
           => remote_call.extra_body.timeout_seconds \in 60..600

\* C18 witness: validate() has accepted a configuration with timeout 600.
C18_Witness ==
    /\ Returned("validate")
    /\ fn_call.default_timeout_seconds = 600
    /\ fn_ret.value = TRUE

\* a limit clamped into [1,100]
Clamp(n) == IF n < 1 THEN 1 ELSE IF n > max_task_limit THEN max_task_limit ELSE n

\* C19, as stated: for every limit passed to fetch_tasks the limit it sends is
\* that value clamped into [1,100], and every status of the filter is sent as
\* a status parameter of its own.
C19_LimitClamped ==
    Returned("fetch_tasks")
        => /\ fn_ret.value.limit = Clamp(fn_call.limit)
           /\ fn_ret.value.limit \in 1..max_task_limit
           /\ fn_ret.value.status = fn_call.status_filter

\* C19: fetch_tasks sends the limit it is passed, unchanged, and every status
\* of the filter as a status parameter of its own, in the filter's order; the
\* requests of the task manager page carry a limit within [1,100] and, as
\* status parameters, distinct options of the multiselect.
C19_LimitSentAsPassed ==
    /\ Returned("fetch_tasks")
           => /\ fn_ret.value.limit = fn_call.limit
              /\ Len(fn_ret.value.status) = Len(fn_call.status_filter)
              /\ \A k \in DOMAIN fn_call.status_filter :
                     fn_ret.value.status[k] = fn_call.status_filter[k]
    /\ remote_call.op = "list_tasks"
           => /\ remote_call.limit \in 1..max_task_limit
              /\ \A k \in DOMAIN remote_call.status :
                     remote_call.status[k] \in StatusOptions
              /\ \A j, k \in DOMAIN remote_call.status :
                     remote_call.status[j] = remote_call.status[k] => j = k

\* C19 witness: the page has fetched with limit 100 and a filter of two
\* statuses, and the remote answered with tasks.
C19_Witness ==
    /\ page = "tasks"
    /\ outcome = "fetched"
    /\ remote_call.op = "list_tasks"
    /\ remote_call.limit = 100
    /\ Len(remote_call.status) = 2
    /\ tasks # <<>>

FileOfCall(i) == Len(RegisterCalls(SubSeq(upload_log, 1, i)))

\* C21: in an upload batch of either page, every PUT directly follows the
\* successful registration of the same file and carries the id (the upload
\* url) that registration returned; every successful registration is
\* directly followed by its PUT; the k-th registration is the one of file k
\* of the batch, so all calls of file k precede all calls of file k+1; and
\* a file gets an id, the one of its registration, exactly when both of its
\* calls succeeded.
C21_RegisterThenPutPerFile ==
    outcome = "uploaded"
        => /\ \A i \in DOMAIN upload_log :
                  upload_log[i].op = "put"
                      => /\ i > 1
                         /\ upload_log[i - 1].op = "register"
                         /\ upload_log[i - 1].id # None
                         /\ upload_log[i - 1].id = upload_log[i].id
                         /\ upload_log[i - 1].name = upload_log[i].name
           /\ \A i \in DOMAIN upload_log :
                  (upload_log[i].op = "register" /\ upload_log[i].id # None)
                      => /\ i < Len(upload_log)
                         /\ upload_log[i + 1].op = "put"
           /\ Len(RegisterCalls(upload_log)) = Len(upload_batch)
           /\ \A i \in DOMAIN upload_log :
                  /\ FileOfCall(i) \in DOMAIN upload_batch
                  /\ upload_log[i].name = upload_batch[FileOfCall(i)].name
                  /\ upload_log[i].id = batch_ids[FileOfCall(i)]
           /\ page = "files"
                  => \A k \in DOMAIN upload_batch :
                         upload_results[k].file_id
                             = (IF upload_batch[k].outcome = "ok"
                                THEN batch_ids[k] ELSE None)
           /\ page = "app"
                  => /\ \A k \in DOMAIN uploaded_files :
                            \E j \in DOMAIN upload_batch :
                                /\ upload_batch[j].outcome = "ok"
                                /\ uploaded_files[k].id = batch_ids[j]
                     /\ Len(uploaded_files)
                            = Cardinality({j \in DOMAIN upload_batch :
                                              upload_batch[j].outcome = "ok"})

\* C21 witness: Upload All Files with a file whose PUT failed and then a
\* file that went through: four remote calls, one id returned.
C21_Witness ==
    /\ page = "files"
    /\ outcome = "uploaded"
    /\ Len(upload_batch) = 2
    /\ upload_batch[1].outcome = "put_fail"
    /\ upload_batch[2].outcome = "ok"
    /\ Len(upload_log) = 4
    /\ upload_results[1].file_id = None
    /\ upload_results[2].file_id = batch_ids[2]

\* the greatest element of a non-empty set of ids: the task created last
MaxId(S) == CHOOSE x \in S : \A y \in S : y <= x

\* C22, as stated: a task created with a previous task id continues the task
\* created last, successfully, in the conversation that is active at the
\* send; it is never chained to a task of another conversation, also after
\* Load.
C22_ChainedWithinConversation ==
    \A k \in DOMAIN create_log :
        create_log[k].previous_task_id # None
            => /\ create_log[k].conv_tasks # {}
               /\ create_log[k].previous_task_id = MaxId(create_log[k].conv_tasks)

\* the number of messages of a conversation with the given role
CountRole(msgs, role) == Cardinality({k \in DOMAIN msgs : msgs[k].role = role})

\* C23: only New Chat and Load replace the active conversation; any other
\* step that changes it appends one message behind the others: the user
\* message when a send starts, the assistant message when a send ends with a
\* snapshot.  While the task is created and polled, and after a send whose
\* creation or polling failed, the send's user message is the last message;
\* every assistant message directly follows a user message, so a
\* conversation never holds more assistant than user messages, and the sends
\* of a session have appended at most as many assistant as user messages.
C23_AppendOnly ==
    /\ [][messages' # messages
            => \/ outcome' \in {"new_chat", "loaded"}
               \/ /\ Len(messages') = Len(messages) + 1
                  /\ SubSeq(messages', 1, Len(messages)) = messages
                  /\ pc = "idle" => Last(messages').role = "user"
                  /\ pc # "idle"
                        => /\ pc = "polled"
                           /\ Last(messages').role = "assistant"
                           /\ Last(messages).role = "user"]_vars
    /\ []((pc # "idle" \/ outcome \in {"create_failed", "poll_aborted"})
            => /\ Len(messages) = Len(at_send.messages) + 1
               /\ SubSeq(messages, 1, Len(at_send.messages)) = at_send.messages
               /\ Last(messages).role = "user")
    /\ [](\A k \in DOMAIN messages :
              messages[k].role = "assistant"
                  => (k > 1 /\ messages[k - 1].role = "user"))
    /\ [](CountRole(messages, "assistant") <= CountRole(messages, "user"))
    /\ [](Len(credit_log) <= Len(create_log))

\* C23 witness: a conversation of a question and its reply got a second
\* question whose poll was aborted: the question is its last message.
C23_Witness ==
    /\ outcome = "poll_aborted"
    /\ Len(messages) = 3
    /\ messages[1].role = "user"
    /\ messages[2].role = "assistant"
    /\ messages[3].role = "user"

\* C24, as stated: an entry of the conversation history keeps the message
\* sequence it was stored with: no step removes the entry or changes its
\* messages, also not a send made after the entry was loaded back.
C24_HistoryEntriesImmutable ==
    [][\A i \in DOMAIN conversation_history :
           /\ i \in DOMAIN conversation_history'
           /\ conversation_history'[i].messages = conversation_history[i].messages]_vars

\* the number of create_task calls of the session that returned a task
SuccessfulCreates == Cardinality({k \in DOMAIN create_log : create_log[k].id # None})

\* C25: task_count is the number of successful create_task calls of the
\* session.  The only step that changes it is a send whose creation
\* succeeded, which raises it by one on its way into the poll; a failed
\* creation, a poll abort, New Chat and Load leave it alone; it is at least
\* the number of assistant messages the sends have appended.
C25_TaskCountCountsCreations ==
    /\ [](task_count = SuccessfulCreates)
    /\ [][task_count' # task_count
            => /\ task_count' = task_count + 1
               /\ pc = "idle" /\ pc' = "poll"
               /\ Len(create_log') = Len(create_log) + 1
               /\ Last(create_log').id # None]_vars
    /\ []((Polling \/ pc = "polled") => task_count = at_send.task_count + 1)
    /\ [](outcome = "create_failed" => task_count = at_send.task_count)
    /\ [](task_count >= Len(credit_log))

\* C25 witness: two tasks were created, the poll of one was aborted, and New
\* Chat was pressed: the counter still reads 2, with one assistant message
\* appended in the session.
C25_Witness ==
    /\ outcome = "new_chat"
    /\ task_count = 2
    /\ Len(create_log) = 2
    /\ Len(credit_log) = 1
    /\ Len(conversation_history) >= 1

\* C26: the Delete button and delete_task leave the cached task list, its
\* presence and the cached details as they are, whether the deletion worked,
\* failed or was never attempted; after delete_task has deleted a task at the
\* remote, the cached list still holds it.
C26_DeleteKeepsCachedList ==
    /\ [][outcome' \in {"task_deleted", "task_delete_failed", "task_delete_crashed"}
            => (tasks' = tasks /\ has_tasks' = has_tasks /\ details' = details)]_vars
    /\ [](Returned("delete_task")
            => /\ tasks = fn_call.cached
               /\ has_tasks
               /\ fn_ret.value = fn_call.ok
               /\ fn_ret.value
                     => /\ \A k \in DOMAIN remote_tasks :
                               remote_tasks[k].id # fn_call.task_id
                        /\ \E k \in DOMAIN tasks : tasks[k].id = fn_call.task_id)

\* C26 witness: delete_task has deleted task 2 at the remote, which holds
\* two tasks now, and the cached list still shows all three.
C26_Witness ==
    /\ Returned("delete_task")
    /\ fn_ret.value
    /\ fn_call.task_id = 2
    /\ Len(remote_tasks) = 2
    /\ Len(tasks) = 3
    /\ tasks[2].id = 2

\* C27, as stated: a Fetch Tasks whose list call raised leaves the cached
\* task list as it was before the button was pressed.
C27_FailedFetchKeepsCache ==
    [][outcome' = "fetch_failed" => tasks' = tasks]_vars

\* C27: after a Fetch Tasks whose list call raised the cached task list is
\* the empty list, whatever it held before, and the error is shown.
C27_FailedFetchEmptiesCache ==
    outcome = "fetch_failed"
        => /\ tasks = <<>>
           /\ has_tasks
           /\ errors = {[src |-> "fetch_tasks", arg |-> ""]}

\* C27 witness: a fetch failed in a session whose cached list held tasks.
C27_Witness ==
    /\ outcome = "fetch_failed"
    /\ replaced_len > 0
    /\ tasks = <<>>
    /\ remote_tasks # <<>>

RECURSIVE StagedFrom(_)
\* the files k.. of the last batch that went through, in batch order, each
\* with the id its registration returned
StagedFrom(k) ==
    IF k > Len(upload_batch) THEN <<>>
    ELSE (IF upload_batch[k].outcome = "ok"
          THEN <<[id |-> batch_ids[k], name |-> upload_batch[k].name]>>
          ELSE <<>>) \o StagedFrom(k + 1)

\* C28: after Process All Uploads the staging list is exactly the files of
\* that batch whose registration and PUT both succeeded, in the order of the
\* batch, each with the id of its own registration, ids that differ from one
\* file to the next; nothing staged before the batch is left, also when
\* every file of the batch failed.
C28_UploadsReplaceStaging ==
    (page = "app" /\ outcome = "uploaded")
        => /\ uploaded_files = StagedFrom(1)
           /\ \A j, k \in DOMAIN uploaded_files :
                  uploaded_files[j].id = uploaded_files[k].id => j = k
           /\ \A k \in DOMAIN uploaded_files :
                  uploaded_files[k].id \in remote_files
           /\ (\A k \in DOMAIN upload_batch : upload_batch[k].outcome # "ok")
                  => uploaded_files = <<>>

\* C28 witness: a batch whose two files both failed was processed while a
\* file of an earlier batch was staged; nothing is staged now.
C28_Witness ==
    /\ page = "app"
    /\ outcome = "uploaded"
    /\ replaced_len > 0
    /\ Len(upload_batch) = 2
    /\ upload_batch[1].outcome = "put_fail"
    /\ upload_batch[2].outcome = "reg_fail"
    /\ uploaded_files = <<>>

\* C29: at a send the create_task call gets the ids of the files staged at
\* that moment, in staging order; the request carries, behind the text, one
\* input_file item per staged file in that order and nothing else; the user
\* message records the names of the same files in the same order.  With
\* nothing staged the request has no input_file item and the user message
\* no file names.
C29_SendAttachesStagedFiles ==
    (page = "app" /\ remote_call.op = "create")
        => LET staged == at_send.uploaded_files
               call == Last(create_log)
               content == remote_call.input[1].content
               user_message == Last(messages)
           IN  /\ Len(call.file_ids) = Len(staged)
               /\ \A k \in DOMAIN staged : call.file_ids[k] = staged[k].id
               /\ Len(content) = 1 + Len(staged)
               /\ content[1].type = "input_text"
               /\ \A k \in DOMAIN staged :
                      /\ content[k + 1].type = "input_file"
                      /\ content[k + 1].file_id = staged[k].id
               /\ user_message.role = "user"
               /\ Len(user_message.files) = Len(staged)
               /\ \A k \in DOMAIN staged : user_message.files[k] = staged[k].name
               /\ staged = <<>>
                      => /\ \A k \in DOMAIN content : content[k].type # "input_file"
                         /\ user_message.files = <<>>

\* C29 witness: a message was sent with a.txt and b.pdf staged, in that
\* order, under different ids.
C29_Witness ==
    /\ page = "app"
    /\ remote_call.op = "create"
    /\ Len(at_send.uploaded_files) = 2
    /\ at_send.uploaded_files[1].name = "a.txt"
    /\ at_send.uploaded_files[2].name = "b.pdf"
    /\ at_send.uploaded_files[1].id # at_send.uploaded_files[2].id
    /\ Last(messages).files = <<"a.txt", "b.pdf">>

\* C30: New Chat and Load leave total_credits_used and task_count as they
\* are; pressed on an empty conversation they add no history entry, pressed
\* on any other they add one entry, which holds the conversation and the two
\* counters of the session as they are at that moment; no history entry has
\* an empty message sequence.
C30_SnapshotHoldsSessionTotals ==
    /\ [][outcome' \in {"new_chat", "loaded"}
            => /\ total_credits_used' = total_credits_used
               /\ task_count' = task_count
               /\ messages = <<>>
                     => Len(conversation_history') = Len(conversation_history)
               /\ messages # <<>>
                     => /\ Len(conversation_history') = Len(conversation_history) + 1
                        /\ Last(conversation_history').messages = messages
                        /\ Last(conversation_history').task_count = task_count
                        /\ Last(conversation_history').credits_used
                               = total_credits_used]_vars
    /\ [](\A i \in DOMAIN conversation_history :
              conversation_history[i].messages # <<>>)

\* C30 witness: the second conversation of a session, with one task of 5
\* credits, is stored with the totals of the session: 2 tasks, 10 credits.
C30_Witness ==
    /\ outcome = "new_chat"
    /\ Len(conversation_history) = 2
    /\ CountRole(conversation_history[2].messages, "user") = 1
    /\ CountRole(conversation_history[2].messages, "assistant") = 1
    /\ conversation_history[2].messages[2].credits = 5
    /\ conversation_history[2].task_count = 2
    /\ conversation_history[2].credits_used = 10

====
